---------------------------- MODULE Spec2Model ----------------------------
(***************************************************************************)
(* The balance-ledger engine of divider: the Transaction split algorithm   *)
(* (src/src/core/transaction.rs) and the Ledger write path with its        *)
(* periodic reconciliation (src/src/core/ledger.rs).                       *)
(*                                                                         *)
(* Amounts.  Amount is f32 in the source.  The model computes with exact   *)
(* rationals, written as integers in units of 1/Unit of the currency:      *)
(* every amount a caller passes in is a multiple of Unit, and Unit is a    *)
(* multiple of every possible number of Even entries, so the one division  *)
(* of the source (benefits_per_even) is exact.  f32 rounding is not        *)
(* modelled.                                                               *)
(*                                                                         *)
(* HashMap.  A UserAmountMap is a function from a finite set of names to   *)
(* amounts.  The order in which a HashMap is iterated is not fixed by the  *)
(* source (RandomState), so a loop over one is modelled for every order.   *)
(***************************************************************************)
EXTENDS Integers, Sequences, FiniteSets, TLC

VARIABLES
    ledger,     \* the Ledger value the caller holds
    before,     \* the ledger as it was when the last call was made
    call,       \* the last call made: operation and arguments
    result,     \* what the last call returned
    calls,      \* number of calls made so far
    store,      \* the contents of the ledger file of the JsonStore
    steps,      \* the calls the last command made on the store, in order
    requests    \* the add-user requests the server is handling

vars == <<ledger, before, call, result, calls, store, steps, requests>>

---------------------------------------------------------------------------
(* Bounds of the model *)

\* longest contributions list a caller passes in
MaxContribs == 2
\* longest benefits list a caller passes in
MaxBenefits == 2
\* most calls made on one ledger
MaxCalls == 3

RECURSIVE Gcd(_, _)
Gcd(x, y) == IF y = 0 THEN x ELSE Gcd(y, x % y)

RECURSIVE LcmUpTo(_)
LcmUpTo(n) == IF n <= 1 THEN 1 ELSE LET l == LcmUpTo(n - 1) IN (l * n) \div Gcd(l, n)

\* One unit of currency, in the model's integer units: divisible by every
\* possible count of Even entries.
Unit == LcmUpTo(MaxBenefits)

\* the amounts callers pass in
Amounts == {Unit, 2 * Unit}

\* user names of the pure-function specification
TxNames == {"a", "b"}

\* user names of the ledger specifications; InitialUsers are given to new()
Names == {"a", "b", "c"}
InitialUsers == {"a", "b"}

SeqsUpTo(S, n) == UNION {[1..k -> S] : k \in 0..n}

---------------------------------------------------------------------------
(* Values *)

\* enum Benefit { Sum(Amount), Even }
Sum(v) == [kind |-> "Sum", val |-> v]
Even == [kind |-> "Even", val |-> 0]

\* Result values: Ok(v) and the variants of TransactionError
Ok(v) == [kind |-> "Ok", val |-> v]
InsufficientBenefits(specified, spent) ==
    [kind |-> "InsufficientBenefits", specified |-> specified, spent |-> spent]
ExcessBenefits(specified, spent) ==
    [kind |-> "ExcessBenefits", specified |-> specified, spent |-> spent]
UnknownUser(name) == [kind |-> "UnknownUser", user |-> name]
UnknownTransactionId(id) == [kind |-> "UnknownTransactionId", id |-> id]

IsOk(r) == r.kind = "Ok"
IsSplitError(r) == r.kind \in {"InsufficientBenefits", "ExcessBenefits"}

\* Option<usize>
None == [some |-> FALSE, val |-> 0]
Some(n) == [some |-> TRUE, val |-> n]

\* struct User { name }
User(name) == [name |-> name]

\* HashMap::new()
EmptyMap == [u \in {} |-> 0]

\* HashMap::insert: the value of an existing key is overwritten
Insert(m, k, v) == [u \in DOMAIN m \cup {k} |-> IF u = k THEN v ELSE m[u]]

\* EntrySub with the entry overwritten instead of subtracted from
EntrySub_overwrite(m, k, v) == Insert(m, k, 0 - v)

\* *m.entry(k).or_insert(0) -= v
EntrySub(m, k, v) ==
    [u \in DOMAIN m \cup {k} |->
        IF u = k THEN (IF k \in DOMAIN m THEN m[k] ELSE 0) - v ELSE m[u]]

\* sum of the values of a map
RECURSIVE MapSum(_)
MapSum(m) ==
    IF DOMAIN m = {} THEN 0
    ELSE LET k == CHOOSE u \in DOMAIN m : TRUE
         IN m[k] + MapSum([u \in DOMAIN m \ {k} |-> m[u]])

---------------------------------------------------------------------------
(* Transaction *)

\* DateTime<Utc>: the whole seconds and the nanoseconds within the second
DateTime(secs, nanos) == [secs |-> secs, nanos |-> nanos]

\* Utc::now(): a reading of the clock, which falls between two whole seconds
UtcNow == DateTime(1, 1)

\* Transaction::new, called with no explicit time: the datetime is Utc::now()
TransactionNew(contributions, benefits, description, direct, opt_id) ==
    [id |-> IF opt_id.some THEN opt_id.val ELSE 0,
     datetime |-> UtcNow,
     contributions |-> contributions,
     benefits |-> benefits,
     is_direct |-> direct,
     description |-> description]

RECURSIVE SumFrom(_, _)
SumFrom(s, i) == IF i > Len(s) THEN 0 ELSE s[i] + SumFrom(s, i + 1)

total_spending(t) ==
    SumFrom([i \in 1..Len(t.contributions) |-> t.contributions[i].amount], 1)

specified_benefits(t) ==
    SumFrom([i \in 1..Len(t.benefits) |->
                IF t.benefits[i].benefit.kind = "Sum"
                THEN t.benefits[i].benefit.val ELSE 0], 1)

num_even_benefits(t) ==
    Cardinality({i \in 1..Len(t.benefits) : t.benefits[i].benefit.kind = "Even"})

\* benefits_per_even with the Even entries counted before the fixed shares
\* are compared with the spending
benefits_per_even_evens_first(t) ==
    LET spending == total_spending(t)
        specified == specified_benefits(t)
        num_evens == num_even_benefits(t)
        total_amount_evens == spending - specified
    IN  IF num_evens > 0 THEN Ok(total_amount_evens \div num_evens)
        ELSE IF specified > spending THEN ExcessBenefits(specified, spending)
        ELSE IF total_amount_evens > 0
             THEN InsufficientBenefits(specified, spending)
        ELSE Ok(0)

\* benefits_per_even with InsufficientBenefits carrying what is left to share
\* in place of what was spent
benefits_per_even_spent_left(t) ==
    LET spending == total_spending(t)
        specified == specified_benefits(t)
        num_evens == num_even_benefits(t)
        total_amount_evens == spending - specified
    IN  IF specified > spending THEN ExcessBenefits(specified, spending)
        ELSE IF total_amount_evens > 0 /\ num_evens = 0
             THEN InsufficientBenefits(specified, total_amount_evens)
        ELSE IF total_amount_evens = 0 /\ num_evens = 0 THEN Ok(0)
        ELSE Ok(total_amount_evens \div num_evens)

benefits_per_even(t) ==
    LET spending == total_spending(t)
        specified == specified_benefits(t)
        num_evens == num_even_benefits(t)
        total_amount_evens == spending - specified
    IN  IF specified > spending THEN ExcessBenefits(specified, spending)
        ELSE IF total_amount_evens > 0 /\ num_evens = 0
             THEN InsufficientBenefits(specified, spending)
        ELSE IF total_amount_evens = 0 /\ num_evens = 0 THEN Ok(0)
        ELSE Ok(total_amount_evens \div num_evens)

\* the first loop of balance_updates: insert every contribution
RECURSIVE InsertContributions(_, _, _)
InsertContributions(m, contributions, i) ==
    IF i > Len(contributions) THEN m
    ELSE InsertContributions(
            Insert(m, contributions[i].user, contributions[i].amount),
            contributions, i + 1)

\* the second loop of balance_updates: subtract every benefit
RECURSIVE SubtractBenefits(_, _, _, _)
SubtractBenefits(m, benefits, benefit_per_even, i) ==
    IF i > Len(benefits) THEN m
    ELSE LET final_benefit ==
                IF benefits[i].benefit.kind = "Sum"
                THEN benefits[i].benefit.val ELSE benefit_per_even
         IN SubtractBenefits(EntrySub(m, benefits[i].user, final_benefit),
                             benefits, benefit_per_even, i + 1)

balance_updates(t) ==
    LET benefit_per_even == benefits_per_even(t)
    IN  IF ~IsOk(benefit_per_even) THEN benefit_per_even
        ELSE Ok(SubtractBenefits(
                    InsertContributions(EmptyMap, t.contributions, 1),
                    t.benefits, benefit_per_even.val, 1))

\* format!("{:04x}", n)
HexDigit(d) ==
    CASE d = 0 -> "0" [] d = 1 -> "1" [] d = 2 -> "2" [] d = 3 -> "3"
      [] d = 4 -> "4" [] d = 5 -> "5" [] d = 6 -> "6" [] d = 7 -> "7"
      [] d = 8 -> "8" [] d = 9 -> "9" [] d = 10 -> "a" [] d = 11 -> "b"
      [] d = 12 -> "c" [] d = 13 -> "d" [] d = 14 -> "e" [] d = 15 -> "f"

RECURSIVE Hex(_)
Hex(n) == IF n < 16 THEN HexDigit(n) ELSE Hex(n \div 16) \o HexDigit(n % 16)

Hex4(n) ==
    IF n < 16 THEN "000" \o Hex(n)
    ELSE IF n < 256 THEN "00" \o Hex(n)
    ELSE IF n < 4096 THEN "0" \o Hex(n)
    ELSE Hex(n)

\* the reversed transaction for a given share and direct flag, used by the
\* two variants of reverse that follow
Reversed(t, share, direct) ==
    [id |-> 0,
     datetime |-> UtcNow,
     contributions |->
        [i \in 1..Len(t.benefits) |->
            [user |-> t.benefits[i].user,
             amount |-> IF t.benefits[i].benefit.kind = "Sum"
                        THEN t.benefits[i].benefit.val ELSE share]],
     benefits |->
        [i \in 1..Len(t.contributions) |->
            [user |-> t.contributions[i].user,
             benefit |-> Sum(t.contributions[i].amount)]],
     is_direct |-> direct,
     description |-> "Undo " \o Hex4(t.id)]

\* reverse with the direct flag of the original kept
reverse_keeps_direct(t) ==
    LET benefit_per_even == benefits_per_even(t)
    IN  IF ~IsOk(benefit_per_even) THEN benefit_per_even
        ELSE Ok(Reversed(t, benefit_per_even.val, t.is_direct))

\* reverse with a failed split taken as a share of 0
reverse_unchecked(t) ==
    LET benefit_per_even == benefits_per_even(t)
    IN  Ok(Reversed(t, IF IsOk(benefit_per_even) THEN benefit_per_even.val
                       ELSE 0, FALSE))

reverse(t) ==
    LET benefit_per_even == benefits_per_even(t)
    IN  IF ~IsOk(benefit_per_even) THEN benefit_per_even
        ELSE Ok([id |-> 0,
                 datetime |-> UtcNow,
                 contributions |->
                    [i \in 1..Len(t.benefits) |->
                        [user |-> t.benefits[i].user,
                         amount |-> IF t.benefits[i].benefit.kind = "Sum"
                                    THEN t.benefits[i].benefit.val
                                    ELSE benefit_per_even.val]],
                 benefits |->
                    [i \in 1..Len(t.contributions) |->
                        [user |-> t.contributions[i].user,
                         benefit |-> Sum(t.contributions[i].amount)]],
                 is_direct |-> FALSE,
                 description |-> "Undo " \o Hex4(t.id)])

---------------------------------------------------------------------------
(* Ledger *)

CONSISTENCY_CHECK_INTERVAL == 100

\* Ledger::new
LedgerNew(user_names) ==
    [next_id |-> 1,
     balances |-> [u \in user_names |-> 0],
     users |-> [u \in user_names |-> User(u)],
     transactions |-> <<>>,
     total_spend |-> 0]

\* what a call leaves behind: the ledger after it and the value it returned
Outcome(l, r) == [ledger |-> l, result |-> r]

\* Ok(())
Done == Ok(<<>>)

get_users(l) == {l.users[u] : u \in DOMAIN l.users}

get_balances(l) == l.balances

get_transactions(l) == l.transactions

\* add_user that also inserts a zero balance, over one that is there
add_user_resets_balance(l, name) ==
    [l EXCEPT !.users = [u \in DOMAIN l.users \cup {name} |->
                            IF u = name THEN User(name) ELSE l.users[u]],
              !.balances = Insert(@, name, 0)]

add_user(l, name) ==
    [l EXCEPT !.users = [u \in DOMAIN l.users \cup {name} |->
                            IF u = name THEN User(name) ELSE l.users[u]]]

\* the orders in which the keys S of a HashMap can be iterated
Orders(S) ==
    {o \in [1..Cardinality(S) -> S] :
        \A i, j \in 1..Cardinality(S) : i # j => o[i] # o[j]}

\* UpdateInOrder with a key that balances does not hold skipped
RECURSIVE UpdateInOrder_skip_unknown(_, _, _, _)
UpdateInOrder_skip_unknown(balances, changes, order, i) ==
    IF i > Len(order) THEN [balances |-> balances, result |-> Done]
    ELSE IF order[i] \in DOMAIN balances
         THEN UpdateInOrder_skip_unknown(
                [balances EXCEPT ![order[i]] = @ + changes[order[i]]],
                changes, order, i + 1)
         ELSE UpdateInOrder_skip_unknown(balances, changes, order, i + 1)

\* the loop of update_balances, over the keys of changes in the given order;
\* it returns at the first key that balances does not hold
RECURSIVE UpdateInOrder(_, _, _, _)
UpdateInOrder(balances, changes, order, i) ==
    IF i > Len(order) THEN [balances |-> balances, result |-> Done]
    ELSE IF order[i] \in DOMAIN balances
         THEN UpdateInOrder(
                [balances EXCEPT ![order[i]] = @ + changes[order[i]]],
                changes, order, i + 1)
         ELSE [balances |-> balances, result |-> UnknownUser(order[i])]

\* every outcome of update_balances: balances as the loop left them, and the
\* value returned
update_balances(balances, changes) ==
    {UpdateInOrder(balances, changes, o, 1) : o \in Orders(DOMAIN changes)}

\* apply_transaction with the result of update_balances dropped
apply_transaction_drops_result(total_spend, balances, transaction) ==
    LET new_total == IF ~transaction.is_direct
                     THEN total_spend + total_spending(transaction)
                     ELSE total_spend
        updates == balance_updates(transaction)
    IN  IF ~IsOk(updates)
        THEN {[total_spend |-> new_total, balances |-> balances,
               result |-> updates]}
        ELSE {[total_spend |-> new_total, balances |-> o.balances,
               result |-> Done] :
                    o \in update_balances(balances, updates.val)}

\* apply_transaction with the users of the transaction looked up in balances
\* before balance_updates is computed
apply_transaction_lookup_first(total_spend, balances, transaction) ==
    LET named == {transaction.contributions[i].user :
                        i \in 1..Len(transaction.contributions)}
                 \cup {transaction.benefits[i].user :
                        i \in 1..Len(transaction.benefits)}
        new_total == IF ~transaction.is_direct
                     THEN total_spend + total_spending(transaction)
                     ELSE total_spend
        updates == balance_updates(transaction)
    IN  IF named \ DOMAIN balances # {}
        THEN {[total_spend |-> new_total, balances |-> balances,
               result |-> UnknownUser(u)] : u \in named \ DOMAIN balances}
        ELSE IF ~IsOk(updates)
        THEN {[total_spend |-> new_total, balances |-> balances,
               result |-> updates]}
        ELSE {[total_spend |-> new_total, balances |-> o.balances,
               result |-> o.result] :
                    o \in update_balances(balances, updates.val)}

\* every outcome of apply_transaction on (total_spend, balances): total_spend
\* is added to before balance_updates is computed
apply_transaction(total_spend, balances, transaction) ==
    LET new_total == IF ~transaction.is_direct
                     THEN total_spend + total_spending(transaction)
                     ELSE total_spend
        updates == balance_updates(transaction)
    IN  IF ~IsOk(updates)
        THEN {[total_spend |-> new_total, balances |-> balances,
               result |-> updates]}
        ELSE {[total_spend |-> new_total, balances |-> o.balances,
               result |-> o.result] :
                    o \in update_balances(balances, updates.val)}

\* the loop of reapply_all over transactions lo..hi, on the local new_total
\* and new_balances; it returns at the first error.  The range is run as its
\* two halves in turn, which is the loop with a recursion depth of log(n).
RECURSIVE ReapplyRange(_, _, _, _, _)
ReapplyRange(transactions, lo, hi, new_total, new_balances) ==
    IF lo > hi
    THEN {[total_spend |-> new_total, balances |-> new_balances,
           result |-> Done]}
    ELSE IF lo = hi
    THEN apply_transaction(new_total, new_balances, transactions[lo])
    ELSE LET mid == (lo + hi) \div 2
         IN  UNION {
                IF IsOk(o.result)
                THEN ReapplyRange(transactions, mid + 1, hi,
                                  o.total_spend, o.balances)
                ELSE {o} :
                    o \in ReapplyRange(transactions, lo, mid,
                                       new_total, new_balances)}

\* reapply_all with the fold started from the current balances and total
reapply_all_from_current(l) ==
    {IF IsOk(r.result)
     THEN Outcome([l EXCEPT !.total_spend = r.total_spend,
                            !.balances = r.balances], Done)
     ELSE Outcome(l, r.result) :
        r \in ReapplyRange(l.transactions, 1, Len(l.transactions),
                           l.total_spend, l.balances)}

\* reapply_all with new_balances started as an empty map
reapply_all_from_empty(l) ==
    {IF IsOk(r.result)
     THEN Outcome([l EXCEPT !.total_spend = r.total_spend,
                            !.balances = r.balances], Done)
     ELSE Outcome(l, r.result) :
        r \in ReapplyRange(l.transactions, 1, Len(l.transactions), 0, EmptyMap)}

\* every outcome of reapply_all: the ledger's fields are assigned only after
\* the loop has ended without an error
reapply_all(l) ==
    {IF IsOk(r.result)
     THEN Outcome([l EXCEPT !.total_spend = r.total_spend,
                            !.balances = r.balances], Done)
     ELSE Outcome(l, r.result) :
        r \in ReapplyRange(l.transactions, 1, Len(l.transactions), 0,
                           [u \in DOMAIN l.balances |-> 0])}

\* needs_consistency_check one transaction early
needs_consistency_check_early(l) ==
    (Len(l.transactions) + 1) % CONSISTENCY_CHECK_INTERVAL = 0

needs_consistency_check(l) ==
    Len(l.transactions) % CONSISTENCY_CHECK_INTERVAL = 0

\* assign_transaction_id with the transaction put in front of the history
assign_transaction_id_push_front(l, transaction) ==
    [l EXCEPT !.transactions = <<[transaction EXCEPT !.id = l.next_id]>> \o @,
              !.next_id = @ + 1]

\* assign_transaction_id with next_id left as it was
assign_transaction_id_no_increment(l, transaction) ==
    [l EXCEPT !.transactions = Append(@, [transaction EXCEPT !.id = l.next_id])]

\* assign_transaction_id with the id of the transaction left as it came
assign_transaction_id_keep_id(l, transaction) ==
    [l EXCEPT !.transactions = Append(@, transaction),
              !.next_id = @ + 1]

\* assign_transaction_id followed by transactions.push
assign_transaction_id(l, transaction) ==
    [l EXCEPT !.transactions = Append(@, [transaction EXCEPT !.id = l.next_id]),
              !.next_id = @ + 1]

\* add_transaction with the id assigned and the transaction pushed before the
\* result of apply_transaction is looked at
add_transaction_push_first(l, transaction) ==
    UNION {
        LET applied == [l EXCEPT !.total_spend = o.total_spend,
                                 !.balances = o.balances]
            pushed == assign_transaction_id(applied, transaction)
        IN  IF ~IsOk(o.result) THEN {Outcome(pushed, o.result)}
            ELSE IF needs_consistency_check(pushed)
                 THEN reapply_all(pushed)
                 ELSE {Outcome(pushed, Done)} :
            o \in apply_transaction(l.total_spend, l.balances, transaction)}

\* every outcome of add_transaction
add_transaction(l, transaction) ==
    UNION {
        LET applied == [l EXCEPT !.total_spend = o.total_spend,
                                 !.balances = o.balances]
        IN  IF ~IsOk(o.result) THEN {Outcome(applied, o.result)}
            ELSE LET pushed == assign_transaction_id(applied, transaction)
                 IN  IF needs_consistency_check(pushed)
                     THEN reapply_all(pushed)
                     ELSE {Outcome(pushed, Done)} :
            o \in apply_transaction(l.total_spend, l.balances, transaction)}

add_expense(l, contributions, benefits, description) ==
    add_transaction(l,
        TransactionNew(contributions, benefits, description, FALSE, None))

add_transfer(l, from, to, amount, description) ==
    add_transaction(l,
        TransactionNew(<<[user |-> from, amount |-> amount]>>,
                       <<[user |-> to, benefit |-> Sum(amount)]>>,
                       description, TRUE, None))

\* reverse_by_id with the id taken as a position in the history, counted
\* from 0
reverse_by_id_by_position(l, id) ==
    IF id + 1 > Len(l.transactions) THEN {Outcome(l, UnknownTransactionId(id))}
    ELSE LET reversed == reverse(l.transactions[id + 1])
         IN  IF ~IsOk(reversed) THEN {Outcome(l, reversed)}
             ELSE add_transaction(l, reversed.val)

\* Ledger::reverse_by_id, called by the CLI's Undo; the first transaction of
\* the history with the id is reversed and the reversal added
reverse_by_id(l, id) ==
    LET found == {i \in 1..Len(l.transactions) : l.transactions[i].id = id}
    IN  IF found = {} THEN {Outcome(l, UnknownTransactionId(id))}
        ELSE LET first == CHOOSE i \in found : \A j \in found : i <= j
                 reversed == reverse(l.transactions[first])
             IN  IF ~IsOk(reversed) THEN {Outcome(l, reversed)}
                 ELSE add_transaction(l, reversed.val)

---------------------------------------------------------------------------
(* Inputs *)

Contribution(user, amount) == [user |-> user, amount |-> amount]
BenefitOf(user, benefit) == [user |-> user, benefit |-> benefit]

\* the transactions of the pure-function specification: every contributions
\* and benefits list within the bounds, made without and with an explicit id
Transactions ==
    {TransactionNew(c, b, "", d, o) :
        c \in SeqsUpTo({Contribution(u, v) : u \in TxNames, v \in Amounts},
                       MaxContribs),
        b \in SeqsUpTo({BenefitOf(u, x) :
                            u \in TxNames, x \in {Even} \cup {Sum(v) : v \in Amounts}},
                       MaxBenefits),
        d \in BOOLEAN,
        o \in {None, Some(7)}}

\* the expenses the ledger specifications draw from, <<contributions, benefits>>:
\* "a" and "b" are users of the ledger, "c" and "d" are not
\* an even split in which the payer shares
EvenSplit ==
    <<<<Contribution("a", 2 * Unit)>>,
      <<BenefitOf("a", Even), BenefitOf("b", Even)>>>>

\* two payers, a fixed share and an even share
MixedSplit ==
    <<<<Contribution("a", Unit), Contribution("b", 2 * Unit)>>,
      <<BenefitOf("b", Sum(Unit)), BenefitOf("a", Even)>>>>

ExpenseInputs ==
    { EvenSplit, MixedSplit,
      \* fixed shares above what was spent
      <<<<Contribution("a", Unit)>>, <<BenefitOf("b", Sum(2 * Unit))>>>>,
      \* fixed shares below what was spent
      <<<<Contribution("a", 2 * Unit)>>, <<BenefitOf("b", Sum(Unit))>>>>,
      \* one payer in two contribution entries
      <<<<Contribution("a", Unit), Contribution("a", Unit)>>,
        <<BenefitOf("b", Sum(2 * Unit))>>>>,
      \* a payer and two beneficiaries, one of them unknown to the ledger
      <<<<Contribution("a", 2 * Unit)>>,
        <<BenefitOf("b", Even), BenefitOf("c", Even)>>>>,
      \* fixed shares above what was spent and an unknown user
      <<<<Contribution("a", Unit)>>,
        <<BenefitOf("b", Sum(Unit)), BenefitOf("c", Sum(Unit))>>>>,
      \* fixed shares below what was spent and two unknown users
      <<<<Contribution("c", 2 * Unit)>>, <<BenefitOf("d", Sum(Unit))>>>>,
      \* two unknown users
      <<<<Contribution("c", Unit)>>, <<BenefitOf("d", Sum(Unit))>>>> }

\* the transactions handed to add_transaction directly, built with an
\* explicit id
TransactionInputs ==
    {TransactionNew(<<Contribution("b", Unit)>>, <<BenefitOf("a", Even)>>,
                    "", d, Some(7)) : d \in BOOLEAN}

---------------------------------------------------------------------------
(* The ledger specification: calls on a ledger made by new() *)

NoTransaction == TransactionNew(<<>>, <<>>, "", FALSE, None)

Call(op, transaction, name, id) ==
    [op |-> op, tx |-> transaction, name |-> name, id |-> id]

\* no ledger file
NoFile == [file |-> "none"]

\* the specifications of the ledger and the transaction use no store and no
\* server
NoStore == store = NoFile /\ steps = <<>> /\ requests = <<>>

Init ==
    /\ ledger = LedgerNew(InitialUsers)
    /\ before = ledger
    /\ call = Call("new", NoTransaction, "", 0)
    /\ result = Done
    /\ calls = 0
    /\ NoStore

Returns(c, o) ==
    /\ calls' = calls + 1
    /\ call' = c
    /\ before' = ledger
    /\ ledger' = o.ledger
    /\ result' = o.result
    /\ UNCHANGED <<store, steps, requests>>

AddUser ==
    /\ calls < MaxCalls
    /\ \E name \in Names :
           Returns(Call("add_user", NoTransaction, name, 0),
                   Outcome(add_user(ledger, name), Done))

AddExpense ==
    /\ calls < MaxCalls
    /\ \E e \in ExpenseInputs :
           \E o \in add_expense(ledger, e[1], e[2], "") :
               Returns(Call("add_expense",
                            TransactionNew(e[1], e[2], "", FALSE, None), "", 0), o)

AddTransfer ==
    /\ calls < MaxCalls
    /\ \E from \in Names, to \in Names :
           \E o \in add_transfer(ledger, from, to, Unit, "") :
               Returns(Call("add_transfer",
                            TransactionNew(<<Contribution(from, Unit)>>,
                                           <<BenefitOf(to, Sum(Unit))>>,
                                           "", TRUE, None), "", 0), o)

AddTransaction ==
    /\ calls < MaxCalls
    /\ \E t \in TransactionInputs :
           \E o \in add_transaction(ledger, t) :
               Returns(Call("add_transaction", t, "", 0), o)

\* the ids undo is asked for: the first and the last of the history, 0 that
\* no stored transaction has, and next_id that is not yet given out
UndoIds(l) ==
    {id \in 0..l.next_id : id <= MaxCalls + 1 \/ id >= l.next_id - 1}

ReverseById ==
    /\ calls < MaxCalls
    /\ \E id \in UndoIds(ledger) :
           \E o \in reverse_by_id(ledger, id) :
               Returns(Call("reverse_by_id", NoTransaction, "", id), o)

Next == AddUser \/ AddExpense \/ AddTransfer \/ AddTransaction \/ ReverseById

Spec == Init /\ [][Next]_vars

---------------------------------------------------------------------------
(* The transaction specification: balance_updates and reverse applied to  *)
(* a transaction made by Transaction::new                                 *)

InitTx ==
    /\ ledger = LedgerNew(InitialUsers)
    /\ before = ledger
    /\ \E t \in Transactions : call = Call("new", t, "", 0)
    /\ result = Done
    /\ calls = 0
    /\ NoStore

BalanceUpdates ==
    /\ call.op = "new"
    /\ call' = [call EXCEPT !.op = "balance_updates"]
    /\ result' = balance_updates(call.tx)
    /\ calls' = calls + 1
    /\ UNCHANGED <<ledger, before, store, steps, requests>>

Reverse ==
    /\ call.op = "new"
    /\ call' = [call EXCEPT !.op = "reverse"]
    /\ result' = reverse(call.tx)
    /\ calls' = calls + 1
    /\ UNCHANGED <<ledger, before, store, steps, requests>>

NextTx == BalanceUpdates \/ Reverse

SpecTx == InitTx /\ [][NextTx]_vars

---------------------------------------------------------------------------
(* The reconciliation specification: a ledger a few transactions short of  *)
(* the consistency check, with the out-of-band write and the direct call   *)
(* of reapply_all that the unit tests of the ledger make                   *)

\* the ledgers that adding expenses lo..hi to l can give, EvenSplit and
\* MixedSplit in turn (the range is run as its two halves in turn)
RECURSIVE FillRange(_, _, _)
FillRange(l, lo, hi) ==
    IF lo > hi THEN {l}
    ELSE IF lo = hi
    THEN LET e == IF lo % 2 = 1 THEN EvenSplit ELSE MixedSplit
         IN  {o.ledger : o \in add_expense(l, e[1], e[2], "")}
    ELSE LET mid == (lo + hi) \div 2
         IN  UNION {FillRange(half, mid + 1, hi) : half \in FillRange(l, lo, mid)}

\* the ledgers after n expenses added to a new one
Filled(n) == FillRange(LedgerNew(InitialUsers), 1, n)

InitInterval ==
    /\ \E k \in 1..(MaxCalls - 1) :
            ledger \in Filled(CONSISTENCY_CHECK_INTERVAL - k)
    /\ before = ledger
    /\ call = Call("new", NoTransaction, "", 0)
    /\ result = Done
    /\ calls = 0
    /\ NoStore

\* *ledger.balances.get_mut(user).unwrap() += amount
Corrupt ==
    /\ calls < MaxCalls
    /\ \E user \in DOMAIN ledger.balances :
           Returns(Call("corrupt", NoTransaction, user, 0),
                   Outcome([ledger EXCEPT !.balances[user] = @ + Unit], Done))

ReapplyAll ==
    /\ calls < MaxCalls
    /\ \E o \in reapply_all(ledger) :
           Returns(Call("reapply_all", NoTransaction, "", 0), o)

NextInterval == AddExpense \/ Corrupt \/ ReapplyAll

SpecInterval == InitInterval /\ [][NextInterval]_vars

---------------------------------------------------------------------------
(* The boundary specification: every call of the ledger specification, on  *)
(* a ledger one transaction short of the consistency check, so that a      *)
(* successful call of any kind runs reapply_all                            *)

InitBoundary ==
    /\ ledger \in Filled(CONSISTENCY_CHECK_INTERVAL - 1)
    /\ before = ledger
    /\ call = Call("new", NoTransaction, "", 0)
    /\ result = Done
    /\ calls = 0
    /\ NoStore

\* most calls made on the ledger at the boundary
BoundaryCalls == MaxCalls - 1

NextBoundary ==
    \/ calls < BoundaryCalls /\ AddUser
    \/ calls < BoundaryCalls /\ AddExpense
    \/ calls < BoundaryCalls /\ AddTransfer
    \/ calls < BoundaryCalls /\ AddTransaction
    \/ calls < BoundaryCalls /\ ReverseById

SpecBoundary == InitBoundary /\ [][NextBoundary]_vars

---------------------------------------------------------------------------
(* Serialisation: the JSON document of a ledger, as the serde derives of   *)
(* Ledger, Transaction and Benefit write and read it.  A JSON object is a  *)
(* function from its keys; a pair is an array of two.                      *)

\* the time of the transaction fixture of the tests, a whole second
SomeTime == DateTime(0, 0)

\* dt.to_rfc3339_opts(SecondsFormat::Secs, true): the string spells the
\* whole seconds of dt and nothing below them
to_rfc3339_secs(dt) == [rfc3339 |-> dt.secs]

\* s.parse::<DateTime<Utc>>() of such a string
parse_datetime(s) == DateTime(s.rfc3339, 0)

\* the fields of struct Ledger and of struct Transaction, in declaration
\* order; none has a serde default
LedgerFields == <<"next_id", "balances", "users", "transactions", "total_spend">>
TransactionFields ==
    <<"id", "datetime", "contributions", "benefits", "is_direct", "description">>

\* Benefit::Even is written "Even", Benefit::Sum(v) is written {"Sum": v}
BenefitToJson(b) ==
    IF b.kind = "Even" THEN [variant |-> "Even", value |-> 0]
    ELSE [variant |-> "Sum", value |-> b.val]

JsonToBenefit(j) == IF j.variant = "Even" THEN Even ELSE Sum(j.value)

TransactionToJson(t) ==
    [id |-> t.id,
     datetime |-> to_rfc3339_secs(t.datetime),
     contributions |->
        [i \in 1..Len(t.contributions) |->
            <<t.contributions[i].user, t.contributions[i].amount>>],
     benefits |->
        [i \in 1..Len(t.benefits) |->
            <<t.benefits[i].user, BenefitToJson(t.benefits[i].benefit)>>],
     is_direct |-> t.is_direct,
     description |-> t.description]

JsonToTransaction(j) ==
    [id |-> j.id,
     datetime |-> parse_datetime(j.datetime),
     contributions |->
        [i \in 1..Len(j.contributions) |->
            [user |-> j.contributions[i][1], amount |-> j.contributions[i][2]]],
     benefits |->
        [i \in 1..Len(j.benefits) |->
            [user |-> j.benefits[i][1],
             benefit |-> JsonToBenefit(j.benefits[i][2])]],
     is_direct |-> j.is_direct,
     description |-> j.description]

\* serde_json::to_string(ledger)
Serialize(l) ==
    [next_id |-> l.next_id,
     balances |-> l.balances,
     users |-> [u \in DOMAIN l.users |-> [name |-> l.users[u].name]],
     transactions |->
        [i \in 1..Len(l.transactions) |-> TransactionToJson(l.transactions[i])],
     total_spend |-> l.total_spend]

ParseError(field) == [kind |-> "ParseError", missing |-> field]

\* the fields of the sequence that the JSON object does not have
MissingFields(fields, j) ==
    {i \in 1..Len(fields) : fields[i] \notin DOMAIN j}

\* the first of them, which is the one the derive reports
FirstMissing(fields, j) ==
    fields[CHOOSE i \in MissingFields(fields, j) :
                \A k \in MissingFields(fields, j) : i <= k]

\* Deserialize with next_id not read from the document, as under
\* #[serde(skip)]: the ledger read has the default next_id
Deserialize_skips_next_id(j) ==
    IF MissingFields(Tail(LedgerFields), j) # {}
    THEN ParseError(FirstMissing(Tail(LedgerFields), j))
    ELSE LET bad == {i \in 1..Len(j.transactions) :
                        MissingFields(TransactionFields, j.transactions[i]) # {}}
         IN  IF bad # {}
             THEN ParseError(FirstMissing(TransactionFields,
                    j.transactions[CHOOSE i \in bad : \A k \in bad : i <= k]))
             ELSE Ok([next_id |-> 0,
                      balances |-> j.balances,
                      users |-> [u \in DOMAIN j.users |-> User(j.users[u].name)],
                      transactions |->
                        [i \in 1..Len(j.transactions) |->
                            JsonToTransaction(j.transactions[i])],
                      total_spend |-> j.total_spend])

\* serde_json::from_str::<Ledger>: every field of the struct must be there,
\* in the ledger and in each of its transactions; other keys are ignored
Deserialize(j) ==
    IF MissingFields(LedgerFields, j) # {}
    THEN ParseError(FirstMissing(LedgerFields, j))
    ELSE LET bad == {i \in 1..Len(j.transactions) :
                        MissingFields(TransactionFields, j.transactions[i]) # {}}
         IN  IF bad # {}
             THEN ParseError(FirstMissing(TransactionFields,
                    j.transactions[CHOOSE i \in bad : \A k \in bad : i <= k]))
             ELSE Ok([next_id |-> j.next_id,
                      balances |-> j.balances,
                      users |-> [u \in DOMAIN j.users |-> User(j.users[u].name)],
                      transactions |->
                        [i \in 1..Len(j.transactions) |->
                            JsonToTransaction(j.transactions[i])],
                      total_spend |-> j.total_spend])

ReadError == [kind |-> "ReadError"]

\* JsonStore::read of the file contents
StoreRead(contents) ==
    IF contents = NoFile THEN ReadError ELSE Deserialize(contents)

\* JsonStore::save: the file contents it leaves
StoreSave(l) == Serialize(l)

---------------------------------------------------------------------------
(* The command line: tokens, the two parsers of AddExpense, execute_action *)

\* a command-line token is a sequence of characters
Digits == <<"0", "1", "2", "3", "4", "5", "6", "7", "8", "9">>

IsDigit(c) == \E d \in 1..Len(Digits) : Digits[d] = c

DigitValue(c) == (CHOOSE d \in 1..Len(Digits) : Digits[d] = c) - 1

\* the characters of a token as one string
RECURSIVE TokenString(_)
TokenString(token) ==
    IF token = <<>> THEN "" ELSE Head(token) \o TokenString(Tail(token))

\* the number that the first n characters of a digits token spell
RECURSIVE DecimalValue(_, _)
DecimalValue(token, n) ==
    IF n = 0 THEN 0
    ELSE 10 * DecimalValue(token, n - 1) + DigitValue(token[n])

\* val.parse::<Amount>(), for tokens of digits and letters: an unsigned
\* whole number parses, anything with a letter and the empty token do not
ParseAmount(token) ==
    IF token # <<>> /\ \A i \in 1..Len(token) : IsDigit(token[i])
    THEN [some |-> TRUE, val |-> DecimalValue(token, Len(token)) * Unit]
    ELSE None

\* format!("{}", amount) of a whole amount
RECURSIVE DisplayWhole(_)
DisplayWhole(n) ==
    IF n < 10 THEN Digits[n + 1]
    ELSE DisplayWhole(n \div 10) \o Digits[(n % 10) + 1]

DisplayAmount(amount) == DisplayWhole(amount \div Unit)

Panic(msg) == [kind |-> "Panic", msg |-> msg]

\* the loop of parse_contributors over the chunks of two tokens from i on
RECURSIVE ParseContributorsFrom(_, _, _)
ParseContributorsFrom(arguments, i, contributions) ==
    IF i > Len(arguments) THEN Ok(contributions)
    ELSE IF i = Len(arguments)
    THEN Panic("Contributions must be pairs of name and amount")
    ELSE LET amount == ParseAmount(arguments[i + 1])
         IN  IF ~amount.some THEN Panic("Must be a number")
             ELSE ParseContributorsFrom(arguments, i + 2,
                    Append(contributions,
                           Contribution(TokenString(arguments[i]), amount.val)))

parse_contributors(arguments) == ParseContributorsFrom(arguments, 1, <<>>)

\* the loop of parse_beneficiaries from token i on; prev_user is the name
\* that waits for its benefit, if has_prev
RECURSIVE ParseBeneficiariesFrom(_, _, _, _, _)
ParseBeneficiariesFrom(arguments, i, beneficiaries, has_prev, prev_user) ==
    IF i > Len(arguments)
    THEN Ok(IF has_prev THEN Append(beneficiaries, BenefitOf(prev_user, Even))
            ELSE beneficiaries)
    ELSE LET amount == ParseAmount(arguments[i])
         IN  IF amount.some
             THEN IF ~has_prev
                  THEN Panic("Expected a user before "
                                \o DisplayAmount(amount.val))
                  ELSE ParseBeneficiariesFrom(arguments, i + 1,
                        Append(beneficiaries,
                               BenefitOf(prev_user, Sum(amount.val))),
                        FALSE, "")
             ELSE ParseBeneficiariesFrom(arguments, i + 1,
                    IF has_prev
                    THEN Append(beneficiaries, BenefitOf(prev_user, Even))
                    ELSE beneficiaries,
                    TRUE, TokenString(arguments[i]))

\* parse_beneficiaries without the push after the loop
parse_beneficiaries_drop_pending(arguments) ==
    LET parsed == ParseBeneficiariesFrom(arguments, 1, <<>>, FALSE, "")
        last_is_name == arguments # <<>>
                        /\ ~ParseAmount(arguments[Len(arguments)]).some
    IN  IF IsOk(parsed) /\ last_is_name
        THEN Ok(SubSeq(parsed.val, 1, Len(parsed.val) - 1))
        ELSE parsed

parse_beneficiaries(arguments) ==
    ParseBeneficiariesFrom(arguments, 1, <<>>, FALSE, "")

\* AddExpense::add_expense: a panic of a parser ends the command
cli_add_expense(l, from, to) ==
    LET contributions == parse_contributors(from)
    IN  IF ~IsOk(contributions) THEN {Outcome(l, contributions)}
        ELSE LET benefits == parse_beneficiaries(to)
             IN  IF ~IsOk(benefits) THEN {Outcome(l, benefits)}
                 ELSE add_expense(l, contributions.val, benefits.val, "")

\* the ledger operation of a mutating subcommand, on the ledger read
Mutate(action, l) ==
    CASE action.cmd = "AddUser" -> {Outcome(add_user(l, action.name), Done)}
      [] action.cmd = "AddDirect" ->
            add_transfer(l, action.from, action.to, action.amount, "Transfer")
      [] action.cmd = "AddExpense" -> cli_add_expense(l, action.from, action.to)
      [] action.cmd = "Undo" -> reverse_by_id(l, action.id)

\* a call made on the store, with the file contents it read or wrote
Step(op, contents) == [op |-> op, contents |-> contents]

\* what a command leaves: the file contents, the calls made on the store,
\* the ledger the command held last and the value it ended with
Ran(contents, made, l, r) ==
    [store |-> contents, steps |-> made, ledger |-> l, result |-> r]

\* execute_action with store.save called before the operation's result is
\* looked at
execute_action_save_first(action, contents, held) ==
    IF action.cmd = "New"
    THEN LET l == LedgerNew(action.names)
         IN  {Ran(StoreSave(l), <<Step("save", StoreSave(l))>>, l, Done)}
    ELSE LET read == StoreRead(contents)
         IN  IF ~IsOk(read)
             THEN {Ran(contents, <<Step("read", contents)>>, held, read)}
             ELSE IF action.cmd \in {"Balances", "List"}
             THEN {Ran(contents, <<Step("read", contents)>>, read.val, Done)}
             ELSE {Ran(StoreSave(o.ledger),
                       <<Step("read", contents),
                         Step("save", StoreSave(o.ledger))>>,
                       o.ledger, o.result) : o \in Mutate(action, read.val)}

\* every outcome of execute_action on the file contents; held is the ledger
\* value left from before, which a command that cannot read keeps
execute_action(action, contents, held) ==
    IF action.cmd = "New"
    THEN LET l == LedgerNew(action.names)
         IN  {Ran(StoreSave(l), <<Step("save", StoreSave(l))>>, l, Done)}
    ELSE LET read == StoreRead(contents)
         IN  IF ~IsOk(read)
             THEN {Ran(contents, <<Step("read", contents)>>, held, read)}
             ELSE IF action.cmd \in {"Balances", "List"}
             THEN {Ran(contents, <<Step("read", contents)>>, read.val, Done)}
             ELSE {IF IsOk(o.result)
                   THEN Ran(StoreSave(o.ledger),
                            <<Step("read", contents),
                              Step("save", StoreSave(o.ledger))>>,
                            o.ledger, Done)
                   ELSE Ran(contents, <<Step("read", contents)>>,
                            o.ledger, o.result) :
                        o \in Mutate(action, read.val)}

---------------------------------------------------------------------------
(* The command-line specification: commands run one after the other on a   *)
(* ledger file                                                             *)

\* a snapshot written by hand: balances, users, total_spend and one
\* transaction, without next_id
LedgerJson ==
    [balances |-> [u \in InitialUsers |-> IF u = "a" THEN 0 - Unit ELSE Unit],
     users |-> [u \in InitialUsers |-> [name |-> u]],
     total_spend |-> 3 * Unit,
     transactions |->
        <<TransactionToJson(
            [TransactionNew(MixedSplit[1], MixedSplit[2], "", FALSE, Some(3))
                EXCEPT !.datetime = SomeTime])>>]

\* the from and to token lists of the AddExpense commands
CliExpenses ==
    { \* "a" pays 2, shared evenly by "a" and "b"
      <<<<<<"a">>, <<"2">>>>, <<<<"a">>, <<"b">>>>>>,
      \* fixed share above what was spent
      <<<<<<"a">>, <<"1">>>>, <<<<"b">>, <<"2">>>>>>,
      \* a share with no name before it
      <<<<<<"a">>, <<"2">>>>, <<<<"2">>, <<"b">>>>>>,
      \* a beneficiary the ledger does not know
      <<<<<<"a">>, <<"2">>>>, <<<<"b">>, <<"c">>>>>> }

\* the subcommands given on the command line
CliActions ==
    {[cmd |-> "New", names |-> InitialUsers],
     [cmd |-> "Balances"], [cmd |-> "List"]}
    \cup {[cmd |-> "AddUser", name |-> n] : n \in {"a", "c"}}
    \cup {[cmd |-> "AddDirect", from |-> "a", to |-> t, amount |-> Unit] :
            t \in {"b", "c"}}
    \cup {[cmd |-> "AddExpense", from |-> e[1], to |-> e[2]] :
            e \in CliExpenses}
    \cup {[cmd |-> "Undo", id |-> i] : i \in 0..MaxCalls}

\* no ledger value is held before the first command
NoLedger == LedgerNew({})

InitCli ==
    /\ store \in {NoFile, LedgerJson}
    /\ steps = <<>>
    /\ requests = <<>>
    /\ ledger = NoLedger
    /\ before = ledger
    /\ call = [op |-> "start", action |-> [cmd |-> "none"]]
    /\ result = Done
    /\ calls = 0

ExecuteAction ==
    /\ calls < MaxCalls
    /\ \E action \in CliActions :
        \E ran \in execute_action(action, store, ledger) :
            /\ calls' = calls + 1
            /\ call' = [op |-> "execute_action", action |-> action]
            /\ before' = ledger
            /\ ledger' = ran.ledger
            /\ result' = ran.result
            /\ store' = ran.store
            /\ steps' = ran.steps
            /\ UNCHANGED requests

NextCli == ExecuteAction

SpecCli == InitCli /\ [][NextCli]_vars

---------------------------------------------------------------------------
(* The server specification: add-user requests for one ledger, each        *)
(* handled by add_user_to_ledger on a worker of the runtime.  The handler  *)
(* takes no lock, so the store calls of two handlers come in any order.    *)

\* most requests handled at the same time
MaxRequests == 2

\* the names the requests ask to add: a user of the ledger and two new ones
RequestNames == {"a", "c", "d"}

Request(pc, name, l) == [pc |-> pc, name |-> name, ledger |-> l]

InitServer ==
    /\ store = StoreSave(LedgerNew(InitialUsers))
    /\ steps = <<>>
    /\ requests \in [1..MaxRequests ->
                        {Request("received", n, NoLedger) : n \in RequestNames}]
    /\ ledger = NoLedger
    /\ before = ledger
    /\ call = [op |-> "serve", action |-> [cmd |-> "none"]]
    /\ result = Done
    /\ calls = 0

\* let mut ledger = ledger_store.read()?;
HandlerRead ==
    \E r \in DOMAIN requests :
        /\ requests[r].pc = "received"
        /\ LET read == StoreRead(store)
           IN  requests' = [requests EXCEPT ![r] =
                    IF IsOk(read) THEN Request("read", @.name, read.val)
                    ELSE Request("failed", @.name, @.ledger)]
        /\ UNCHANGED <<ledger, before, call, result, calls, store, steps>>

\* ledger.add_user(&add_user.name);
HandlerAddUser ==
    \E r \in DOMAIN requests :
        /\ requests[r].pc = "read"
        /\ requests' = [requests EXCEPT ![r] =
                Request("added", @.name, add_user(@.ledger, @.name))]
        /\ UNCHANGED <<ledger, before, call, result, calls, store, steps>>

\* ledger_store.save(&ledger)?; return Ok(Json(ledger));
HandlerSave ==
    \E r \in DOMAIN requests :
        /\ requests[r].pc = "added"
        /\ store' = StoreSave(requests[r].ledger)
        /\ requests' = [requests EXCEPT ![r].pc = "done"]
        /\ UNCHANGED <<ledger, before, call, result, calls, steps>>

NextServer == HandlerRead \/ HandlerAddUser \/ HandlerSave

SpecServer == InitServer /\ [][NextServer]_vars

---------------------------------------------------------------------------
(* The parser specification: parse_beneficiaries applied to a token list   *)

\* longest token list
MaxTokens == 3

\* the tokens: two names, a number of one digit and one of two
Tokens == {<<"a">>, <<"b">>, <<"1">>, <<"1", "2">>}

InitParse ==
    /\ ledger = LedgerNew(InitialUsers)
    /\ before = ledger
    /\ \E arguments \in SeqsUpTo(Tokens, MaxTokens) :
            call = [op |-> "arguments", arguments |-> arguments]
    /\ result = Done
    /\ calls = 0
    /\ NoStore

ParseBeneficiaries ==
    /\ call.op = "arguments"
    /\ call' = [call EXCEPT !.op = "parse_beneficiaries"]
    /\ result' = parse_beneficiaries(call.arguments)
    /\ calls' = calls + 1
    /\ UNCHANGED <<ledger, before, store, steps, requests>>

NextParse == ParseBeneficiaries

SpecParse == InitParse /\ [][NextParse]_vars

---------------------------------------------------------------------------
(* Properties *)

IsAddCall == call.op \in {"add_transaction", "add_expense", "add_transfer"}

\* every outcome of folding apply_transaction over the history of l, from a
\* zero total_spend and a zero balance for every key of balances
Replay(l) ==
    ReapplyRange(l.transactions, 1, Len(l.transactions), 0,
                 [u \in DOMAIN l.balances |-> 0])

\* total_spend and balances of l, as an outcome of the fold
Held(l) ==
    [total_spend |-> l.total_spend, balances |-> l.balances, result |-> Done]

\* what the contribution entries of t name for user u, added up
RECURSIVE ContributedFrom(_, _, _)
ContributedFrom(t, u, i) ==
    IF i > Len(t.contributions) THEN 0
    ELSE (IF t.contributions[i].user = u THEN t.contributions[i].amount ELSE 0)
         + ContributedFrom(t, u, i + 1)

\* the shares of the benefit entries of t that name user u, added up, where
\* an Even entry's share is (total_spending - specified_benefits) / num_even
RECURSIVE SharesFrom(_, _, _)
SharesFrom(t, u, i) ==
    IF i > Len(t.benefits) THEN 0
    ELSE (IF t.benefits[i].user # u THEN 0
          ELSE IF t.benefits[i].benefit.kind = "Sum"
               THEN t.benefits[i].benefit.val
               ELSE (total_spending(t) - specified_benefits(t))
                        \div num_even_benefits(t))
         + SharesFrom(t, u, i + 1)

Contributors(t) == {t.contributions[i].user : i \in 1..Len(t.contributions)}
Beneficiaries(t) == {t.benefits[i].user : i \in 1..Len(t.benefits)}

NoRepeatedContributor(t) ==
    \A i, j \in 1..Len(t.contributions) :
        i # j => t.contributions[i].user # t.contributions[j].user

\* C1: in every reachable state, after failing calls too, balances and
\* total_spend are what folding apply_transaction over the history from zero
\* gives.
C1_BalancesAreTheReplay == Replay(ledger) = {Held(ledger)}

\* C2: add_transaction or add_expense with a non-direct transaction whose
\* split fails returns the split error and leaves balances, total_spend,
\* transactions and next_id as they were.
C2_SplitErrorChangesNothing ==
    (/\ call.op \in {"add_transaction", "add_expense"}
     /\ ~call.tx.is_direct
     /\ IsSplitError(balance_updates(call.tx)))
    => /\ result = balance_updates(call.tx)
       /\ ledger.balances = before.balances
       /\ ledger.total_spend = before.total_spend
       /\ ledger.transactions = before.transactions
       /\ ledger.next_id = before.next_id

\* C3: when add_transaction fails with UnknownUser, no balance and not
\* total_spend has changed, also when the transaction names known users.
C3_UnknownUserChangesNothing ==
    (IsAddCall /\ result.kind = "UnknownUser")
    => /\ ledger.balances = before.balances
       /\ ledger.total_spend = before.total_spend

\* C4: an add_transaction that returns an error appends nothing and leaves
\* next_id; one that returns success appends exactly one transaction and
\* advances next_id by one.
C4_AppendOnlyOnSuccess ==
    IsAddCall
    => IF IsOk(result)
       THEN /\ Len(ledger.transactions) = Len(before.transactions) + 1
            /\ SubSeq(ledger.transactions, 1, Len(before.transactions))
                    = before.transactions
            /\ ledger.next_id = before.next_id + 1
       ELSE /\ ledger.transactions = before.transactions
            /\ ledger.next_id = before.next_id

C4_Witness_FailedAfterAdded ==
    /\ IsAddCall /\ ~IsOk(result)
    /\ Len(ledger.transactions) = 1
    /\ ledger.next_id = 2

\* the one outcome of the fold over the history of l
ReplayFromZero(l) == CHOOSE r \in Replay(l) : TRUE

\* C5: a balance that differs from its replay-from-zero value still differs
\* after a successful add that leaves the length of the history no multiple
\* of the check interval; right after the successful add that makes it a
\* multiple, every balance and total_spend are the replay-from-zero values;
\* a failing add leaves the history, so it does not count to the interval.
C5_CorruptionLastsUntilTheCheck ==
    (call.op = "add_expense")
    => IF ~IsOk(result) THEN ledger.transactions = before.transactions
       ELSE IF Len(ledger.transactions) % CONSISTENCY_CHECK_INTERVAL = 0
       THEN Replay(ledger) = {Held(ledger)}
       ELSE \A u \in DOMAIN before.balances :
                before.balances[u] # ReplayFromZero(before).balances[u]
                => ledger.balances[u] # ReplayFromZero(ledger).balances[u]

C5_Witness_CheckRepairs ==
    /\ call.op = "add_expense" /\ IsOk(result)
    /\ Len(ledger.transactions) = CONSISTENCY_CHECK_INTERVAL
    /\ before.balances["b"] = ReplayFromZero(before).balances["b"] + Unit
    /\ before.total_spend # ReplayFromZero(before).total_spend

\* C6: whatever balances and total_spend hold, reapply_all succeeds on a
\* history of valid transactions and leaves them equal to the fold of
\* apply_transaction over the history from zero; a second reapply_all
\* changes nothing.
C6_ReapplyAllIsTheReplay ==
    (call.op = "reapply_all")
    => /\ IsOk(result)
       /\ Replay(before) = {Held(ledger)}
       /\ ledger.transactions = before.transactions
       /\ reapply_all(ledger) = {Outcome(ledger, Done)}

C6_Witness_RepairedByReapplyAll ==
    /\ call.op = "reapply_all"
    /\ ledger.balances # before.balances
    /\ ledger.total_spend # before.total_spend

\* C7: for every transaction T whose balance_updates succeeds with D,
\* T.reverse() succeeds and its balance_updates has the keys of D and the
\* value -D[u] for every user u, repeated users included.
C7_ReverseNegatesTheDeltas ==
    (call.op = "reverse" /\ IsOk(balance_updates(call.tx)))
    => /\ IsOk(result)
       /\ IsOk(balance_updates(result.val))
       /\ DOMAIN balance_updates(result.val).val
            = DOMAIN balance_updates(call.tx).val
       /\ \A u \in DOMAIN balance_updates(call.tx).val :
            balance_updates(result.val).val[u]
                = 0 - balance_updates(call.tx).val[u]

\* C8: a user named by several contribution entries is credited with the sum
\* of their amounts, so the credits of all users add up to total_spending().
C8_ContributionsAccumulate ==
    (call.op = "balance_updates" /\ IsOk(result))
    => \A u \in Contributors(call.tx) :
            result.val[u] = ContributedFrom(call.tx, u, 1)
                                - SharesFrom(call.tx, u, 1)

\* C9: for a valid transaction with no user repeated among the
\* contributions, the keys of balance_updates are the users named by a
\* contribution or a benefit, and delta[u] is u's contribution (or 0) minus
\* the sum of the shares of u's benefit entries.
C9_DeltasOfDistinctContributors ==
    (/\ call.op = "balance_updates"
     /\ IsOk(result)
     /\ NoRepeatedContributor(call.tx))
    => /\ DOMAIN result.val = Contributors(call.tx) \cup Beneficiaries(call.tx)
       /\ \A u \in DOMAIN result.val :
            result.val[u] = ContributedFrom(call.tx, u, 1)
                                - SharesFrom(call.tx, u, 1)

C9_Witness_RepeatedEvenBeneficiary ==
    /\ call.op = "balance_updates" /\ IsOk(result)
    /\ NoRepeatedContributor(call.tx)
    /\ Len(call.tx.contributions) = 2
    /\ \E i, j \in 1..Len(call.tx.benefits) :
            /\ i # j
            /\ call.tx.benefits[i].user = call.tx.benefits[j].user
            /\ call.tx.benefits[i].benefit.kind = "Even"
            /\ call.tx.benefits[i].user \in Contributors(call.tx)

\* C10: for every transaction whose benefits are all Sum entries that add up
\* to total_spending(), balance_updates succeeds and its deltas add up to 0.
C10_ExactSumsCloseTheSystem ==
    (/\ call.op = "balance_updates"
     /\ num_even_benefits(call.tx) = 0
     /\ specified_benefits(call.tx) = total_spending(call.tx))
    => IsOk(result) /\ MapSum(result.val) = 0

\* C11: for every transaction whose fixed shares add up to more than its
\* contributions, balance_updates fails with ExcessBenefits carrying
\* specified = specified_benefits() and spent = total_spending(), with Even
\* entries among the benefits or without.
C11_ExcessBenefitsCarriesTheSums ==
    (/\ call.op = "balance_updates"
     /\ specified_benefits(call.tx) > total_spending(call.tx))
    => result = [kind |-> "ExcessBenefits",
                 specified |-> specified_benefits(call.tx),
                 spent |-> total_spending(call.tx)]

C11_Witness_ExcessWithEvenEntry ==
    /\ call.op = "balance_updates"
    /\ result.kind = "ExcessBenefits"
    /\ num_even_benefits(call.tx) > 0
    /\ result.specified = 2 * Unit /\ result.spent = Unit

\* C12: for every transaction whose contributions add up to more than its
\* fixed shares and that has no Even entry, balance_updates fails with
\* InsufficientBenefits carrying specified = specified_benefits() and
\* spent = total_spending().
C12_InsufficientBenefitsCarriesTheSums ==
    (/\ call.op = "balance_updates"
     /\ total_spending(call.tx) - specified_benefits(call.tx) > 0
     /\ num_even_benefits(call.tx) = 0)
    => result = [kind |-> "InsufficientBenefits",
                 specified |-> specified_benefits(call.tx),
                 spent |-> total_spending(call.tx)]

C12_Witness_LeftoverWithFixedShare ==
    /\ call.op = "balance_updates"
    /\ result.kind = "InsufficientBenefits"
    /\ result.specified = Unit /\ result.spent = 3 * Unit

\* the user names a transaction refers to
NamesOf(t) == Contributors(t) \cup Beneficiaries(t)

\* C13: after add_user(name) for a name the ledger did not have, get_users
\* has exactly one more user and holds name, balances[name] exists and is 0;
\* and an add_transfer or add_expense with a valid split that refers only to
\* users of the ledger does not fail with UnknownUser.
C13_AddUserOpensABalance ==
    /\ (call.op = "add_user" /\ call.name \notin DOMAIN before.users)
       => /\ Cardinality(get_users(ledger)) = Cardinality(get_users(before)) + 1
          /\ User(call.name) \in get_users(ledger)
          /\ call.name \in DOMAIN get_balances(ledger)
          /\ get_balances(ledger)[call.name] = 0
    /\ (/\ call.op \in {"add_transfer", "add_expense"}
        /\ IsOk(balance_updates(call.tx))
        /\ NamesOf(call.tx) \subseteq DOMAIN before.users)
       => result.kind # "UnknownUser"

\* C14: in every reachable state the keys of balances include every user
\* name of users.
C14_EveryUserHasABalance ==
    DOMAIN ledger.users \subseteq DOMAIN ledger.balances

\* C15: across every call, failing or not, the history before the call is a
\* prefix of the history after it: no entry is removed, moved or changed.
C15_HistoryIsAPrefix ==
    /\ Len(before.transactions) <= Len(ledger.transactions)
    /\ SubSeq(ledger.transactions, 1, Len(before.transactions))
            = before.transactions

C15_Witness_UndoBeforeTheCheck ==
    /\ call.op = "reverse_by_id" /\ IsOk(result)
    /\ Len(ledger.transactions) = CONSISTENCY_CHECK_INTERVAL
    /\ Len(before.transactions) = CONSISTENCY_CHECK_INTERVAL - 1
    /\ ledger.total_spend # before.total_spend + total_spending(
            ledger.transactions[CONSISTENCY_CHECK_INTERVAL])

C17_ExplicitIdIsKept ==
    (call.op = "add_transaction" /\ IsOk(result) /\ call.tx.id # 0)
    => ledger.transactions[Len(ledger.transactions)].id = call.tx.id

\* C18: a successful add_transfer(from, to, amount) leaves total_spend and
\* changes the balance of from by +amount and of to by -amount and no other
\* balance; a successful add_expense raises total_spend by the sum of its
\* contributions.
C18_TransferAndExpenseEffects ==
    /\ (call.op = "add_transfer" /\ IsOk(result))
       => LET from == call.tx.contributions[1].user
              to == call.tx.benefits[1].user
              amount == call.tx.contributions[1].amount
          IN  /\ ledger.total_spend = before.total_spend
              /\ DOMAIN ledger.balances = DOMAIN before.balances
              /\ \A u \in DOMAIN before.balances :
                    ledger.balances[u] = before.balances[u]
                        + (IF u = from THEN amount ELSE 0)
                        - (IF u = to THEN amount ELSE 0)
    /\ (call.op = "add_expense" /\ IsOk(result))
       => ledger.total_spend = before.total_spend + total_spending(call.tx)

\* the names of the delta map of t that balances of l does not hold
Missing(l, t) == DOMAIN balance_updates(t).val \ DOMAIN l.balances

\* C19: an add of a transaction with a valid split whose delta map has a
\* name that is no key of balances returns UnknownUser(n) for such a name n;
\* an add of a transaction that names only keys of balances does not fail
\* with UnknownUser.
C19_UnknownUserNamesAMissingUser ==
    IsAddCall
    => /\ (IsOk(balance_updates(call.tx)) /\ Missing(before, call.tx) # {})
          => /\ result.kind = "UnknownUser"
             /\ result.user \in Missing(before, call.tx)
       /\ NamesOf(call.tx) \subseteq DOMAIN before.balances
          => result.kind # "UnknownUser"

C19_Witness_KnownPayerUnknownSharer ==
    /\ call.op = "add_expense"
    /\ result = [kind |-> "UnknownUser", user |-> "c"]
    /\ Missing(before, call.tx) = {"c"}
    /\ Cardinality(NamesOf(call.tx)) = 3
    /\ Len(before.transactions) = 1

\* C20: the outcome of add_transaction is a function of the transaction and
\* the ledger: from one ledger state, one transaction has one result and
\* leaves one balances and one total_spend, also when it names two or more
\* unknown users.
C20_OneOutcomePerCall ==
    IsAddCall
    => \A o \in add_transaction(before, call.tx) :
            /\ o.result = result
            /\ o.ledger.balances = ledger.balances
            /\ o.ledger.total_spend = ledger.total_spend

\* the positions of the history of l whose transaction has the id
PositionsOf(l, id) == {i \in 1..Len(l.transactions) : l.transactions[i].id = id}

\* C21: reverse_by_id(id) with an id that no transaction of the history has
\* returns UnknownTransactionId(id) and leaves balances, total_spend,
\* transactions and next_id as they were.
C21_UnknownIdChangesNothing ==
    (call.op = "reverse_by_id" /\ PositionsOf(before, call.id) = {})
    => /\ result = [kind |-> "UnknownTransactionId", id |-> call.id]
       /\ ledger.balances = before.balances
       /\ ledger.total_spend = before.total_spend
       /\ ledger.transactions = before.transactions
       /\ ledger.next_id = before.next_id

C21_Witness_IdZeroOnAHistory ==
    /\ call.op = "reverse_by_id" /\ call.id = 0
    /\ Len(before.transactions) = 2
    /\ result.kind = "UnknownTransactionId"

C23_ReverseExchangesTheEntries ==
    (call.op = "reverse" /\ IsOk(balance_updates(call.tx)))
    => LET T == call.tx
           R == result.val
           share == IF num_even_benefits(T) = 0 THEN 0
                    ELSE (total_spending(T) - specified_benefits(T))
                            \div num_even_benefits(T)
       IN  /\ IsOk(result)
           /\ R.is_direct = FALSE
           /\ R.id = 0
           /\ num_even_benefits(R) = 0
           /\ Len(R.contributions) = Len(T.benefits)
           /\ \A i \in 1..Len(T.benefits) :
                /\ R.contributions[i].user = T.benefits[i].user
                /\ R.contributions[i].amount =
                        IF T.benefits[i].benefit.kind = "Sum"
                        THEN T.benefits[i].benefit.val ELSE share
           /\ Len(R.benefits) = Len(T.contributions)
           /\ \A i \in 1..Len(T.contributions) :
                /\ R.benefits[i].user = T.contributions[i].user
                /\ R.benefits[i].benefit =
                        [kind |-> "Sum", val |-> T.contributions[i].amount]
           /\ specified_benefits(R) = total_spending(T)

C23_Witness_DirectWithEvenShare ==
    /\ call.op = "reverse" /\ IsOk(result)
    /\ call.tx.is_direct /\ call.tx.id = 7
    /\ num_even_benefits(call.tx) = 1
    /\ Len(call.tx.contributions) = 2 /\ Len(call.tx.benefits) = 2
    /\ result.val.contributions[2].amount = Unit

\* C24: if balance_updates of T fails with ExcessBenefits or
\* InsufficientBenefits, T.reverse() fails with the same kind of error and
\* the same specified and spent values, and gives no transaction.
C24_ReverseFailsAsTheSplit ==
    (call.op = "reverse" /\ IsSplitError(balance_updates(call.tx)))
    => /\ result.kind = balance_updates(call.tx).kind
       /\ IsSplitError(result)
       /\ result.specified = specified_benefits(call.tx)
       /\ result.spent = total_spending(call.tx)

C24_Witness_ReverseOfInsufficient ==
    /\ call.op = "reverse"
    /\ result = [kind |-> "InsufficientBenefits",
                 specified |-> Unit, spent |-> 2 * Unit]

\* whether token i of the list is a number
IsNumberAt(arguments, i) == ParseAmount(arguments[i]).some

\* the numbers of the list that no name comes right before
Stray(arguments) ==
    {i \in 1..Len(arguments) :
        /\ IsNumberAt(arguments, i)
        /\ (i = 1 \/ IsNumberAt(arguments, i - 1))}

\* the benefit of the name at token i: the number that follows it, or Even
BenefitAt(arguments, i) ==
    BenefitOf(TokenString(arguments[i]),
              IF i < Len(arguments) /\ IsNumberAt(arguments, i + 1)
              THEN Sum(ParseAmount(arguments[i + 1]).val) ELSE Even)

\* the benefits of the names among tokens 1..n, in token order
RECURSIVE BenefitsUpTo(_, _)
BenefitsUpTo(arguments, n) ==
    IF n = 0 THEN <<>>
    ELSE IF IsNumberAt(arguments, n) THEN BenefitsUpTo(arguments, n - 1)
    ELSE Append(BenefitsUpTo(arguments, n - 1), BenefitAt(arguments, n))

\* C27: parse_beneficiaries gives the benefits in token order: a name
\* followed by a number gives (name, Sum(number)), a name followed by a name
\* or by nothing gives (name, Even); a number that no name comes right
\* before aborts with 'Expected a user before <number>'.
C27_BeneficiariesInTokenOrder ==
    (call.op = "parse_beneficiaries")
    => IF Stray(call.arguments) = {}
       THEN result = [kind |-> "Ok",
                      val |-> BenefitsUpTo(call.arguments, Len(call.arguments))]
       ELSE LET first == CHOOSE i \in Stray(call.arguments) :
                            \A k \in Stray(call.arguments) : i <= k
            IN  result = [kind |-> "Panic",
                          msg |-> "Expected a user before " \o
                                  TokenString(call.arguments[first])]

C27_Witness_SumThenEven ==
    /\ call.op = "parse_beneficiaries"
    /\ call.arguments = <<<<"a">>, <<"1", "2">>, <<"b">>>>
    /\ result = [kind |-> "Ok",
                 val |-> <<[user |-> "a",
                            benefit |-> [kind |-> "Sum", val |-> 12 * Unit]],
                           [user |-> "b",
                            benefit |-> [kind |-> "Even", val |-> 0]]>>]

\* the subcommands that change the ledger
MutatingCommands == {"AddUser", "AddDirect", "AddExpense", "Undo"}

\* C25: a mutating subcommand reads the snapshot first; when the read and
\* the ledger operation succeed it saves exactly once, after them, the
\* ledger the operation left; when the read or the operation fails it does
\* not save and the stored ledger is what it was.
C25_SaveOnlyAfterSuccess ==
    (call.op = "execute_action" /\ call.action.cmd \in MutatingCommands)
    => /\ steps[1].op = "read"
       /\ IF IsOk(result)
          THEN /\ Len(steps) = 2
               /\ steps[2].op = "save"
               /\ store = steps[2].contents
               /\ store = StoreSave(ledger)
          ELSE /\ Len(steps) = 1
               /\ store = steps[1].contents

C25_Witness_FailedExpenseNotSaved ==
    /\ call.op = "execute_action" /\ call.action.cmd = "AddExpense"
    /\ result.kind = "ExcessBenefits"
    /\ IsOk(StoreRead(store))
    /\ Len(StoreRead(store).val.transactions) = 1
    /\ ledger.total_spend # StoreRead(store).val.total_spend

\* the keys of a snapshot that holds exactly the four parts
SnapshotParts == {"balances", "users", "total_spend", "transactions"}

\* C26: loading a snapshot that holds exactly the balances map, the users
\* map, total_spend and the transactions list succeeds and gives a ledger
\* with the users and the balances of the snapshot.
C26_SnapshotLoads ==
    (/\ call.op = "execute_action" /\ call.action.cmd = "Balances"
     /\ store # NoFile /\ DOMAIN store = SnapshotParts)
    => /\ IsOk(result)
       /\ DOMAIN ledger.users = DOMAIN store.users
       /\ ledger.balances = store.balances

\* C28: when the add-user requests for one ledger have all completed, the
\* stored ledger has every user they added: no request's update is lost.
C28_NoLostUser ==
    (\A r \in DOMAIN requests : requests[r].pc = "done")
    => /\ IsOk(StoreRead(store))
       /\ \A r \in DOMAIN requests :
            requests[r].name \in DOMAIN StoreRead(store).val.users

\* C29: in every state reached from new() through the public operations,
\* every user name of a contribution or a benefit of a transaction of the
\* history is a key of balances.
C29_HistoryNamesHaveBalances ==
    \A i \in 1..Len(ledger.transactions) :
        NamesOf(ledger.transactions[i]) \subseteq DOMAIN ledger.balances

C29_Witness_UnknownUserKeptOut ==
    /\ IsAddCall /\ result.kind = "UnknownUser"
    /\ Len(ledger.transactions) = 2
    /\ ledger.transactions[2].description = "Undo 0001"

\* C30: add_user(name) for a name the ledger has leaves the number of
\* users, every balance, total_spend, transactions and next_id as they were.
C30_AddExistingUserChangesNothing ==
    (call.op = "add_user" /\ call.name \in DOMAIN before.users)
    => /\ Cardinality(get_users(ledger)) = Cardinality(get_users(before))
       /\ get_balances(ledger) = get_balances(before)
       /\ ledger.total_spend = before.total_spend
       /\ get_transactions(ledger) = get_transactions(before)
       /\ ledger.next_id = before.next_id

C30_Witness_UserWithABalance ==
    /\ call.op = "add_user" /\ call.name = "a"
    /\ ledger.balances["a"] # 0
    /\ Len(ledger.transactions) = 2

\* the transaction that the last successful call appended to the history
LastAdded(l) == l.transactions[Len(l.transactions)]

\* C31: after a successful add_transaction(T) that stored T with id i, a
\* successful reverse_by_id(i) restores every balance to its value before T
\* was added, and a successful reverse_by_id of the id of that reversal
\* restores every balance to its value right after T was added.
C31_UndoRestoresTheBalances ==
    (IsAddCall /\ IsOk(result))
    => \A undone \in reverse_by_id(ledger, LastAdded(ledger).id) :
            IsOk(undone.result)
            => /\ undone.ledger.balances = before.balances
               /\ \A redone \in reverse_by_id(undone.ledger,
                                               LastAdded(undone.ledger).id) :
                        IsOk(redone.result)
                        => redone.ledger.balances = ledger.balances

\* C32: on a ledger reached from new() through the public operations the
\* periodic reapply_all never returns an error (it returns none on a history
\* that has the length at which it runs), so add_transaction never returns
\* an error after it has assigned an id and appended the transaction.
C32_NoErrorAfterTheAppend ==
    /\ (needs_consistency_check(ledger) /\ ledger.transactions # <<>>)
       => \A o \in reapply_all(ledger) : IsOk(o.result)
    /\ (call.op \in {"add_transaction", "add_expense", "add_transfer",
                      "reverse_by_id"} /\ ~IsOk(result))
       => /\ ledger.transactions = before.transactions
          /\ ledger.next_id = before.next_id

C32_Witness_CheckAfterAFailedCall ==
    /\ IsAddCall /\ IsOk(result)
    /\ Len(before.transactions) = CONSISTENCY_CHECK_INTERVAL - 1
    /\ Len(ledger.transactions) = CONSISTENCY_CHECK_INTERVAL
    /\ ledger.total_spend < before.total_spend

\* C33: in every state reached from new() through successful and failing
\* operations the sum of all balances is 0.
C33_BalancesSumToZero == MapSum(ledger.balances) = 0

\* C34: a successful reverse_by_id of a transaction T, direct or not, is
\* applied as a transaction that is not direct and increases total_spend by
\* T.total_spending(); undoing never lowers total_spend.
C34_UndoRaisesTotalSpend ==
    (call.op = "reverse_by_id" /\ IsOk(result))
    => LET original == before.transactions[
                CHOOSE i \in PositionsOf(before, call.id) :
                    \A j \in PositionsOf(before, call.id) : i <= j]
       IN  /\ ~LastAdded(ledger).is_direct
           /\ ledger.total_spend = before.total_spend + total_spending(original)
           /\ ledger.total_spend >= before.total_spend

\* C35: when a transaction has an invalid split (the ExcessBenefits or the
\* InsufficientBenefits condition) and names a user unknown to the ledger,
\* add_transaction returns the split error and never UnknownUser, and no
\* balance has been touched.
C35_SplitErrorBeforeUserLookup ==
    (/\ IsAddCall
     /\ ~IsOk(benefits_per_even(call.tx))
     /\ NamesOf(call.tx) \ DOMAIN before.balances # {})
    => /\ result = benefits_per_even(call.tx)
       /\ result.kind \in {"ExcessBenefits", "InsufficientBenefits"}
       /\ ledger.balances = before.balances

C35_Witness_InsufficientAndUnknown ==
    /\ IsAddCall
    /\ result.kind = "InsufficientBenefits"
    /\ NamesOf(call.tx) \cap DOMAIN before.balances = {}
    /\ Len(before.transactions) = 1

\* a command that ended with store.save
Saved == call.op = "execute_action" /\ IsOk(result)
         /\ steps[Len(steps)].op = "save"

\* the ids of the history that the command read from the store
IdsRead ==
    IF steps[1].op = "read"
    THEN {StoreRead(steps[1].contents).val.transactions[i].id :
            i \in 1..Len(StoreRead(steps[1].contents).val.transactions)}
    ELSE {}

\* a command that added a transaction to the history it read
Added == Saved /\ steps[1].op = "read"
         /\ Len(ledger.transactions) >
                Len(StoreRead(steps[1].contents).val.transactions)

\* the id given to an added transaction is above every id of the stored
\* history
NewIdIsAboveTheStoredIds ==
    Added => \A id \in IdsRead : LastAdded(ledger).id > id

\* a datetime cut to its whole seconds
WholeSeconds(t) == [t EXCEPT !.datetime = DateTime(@.secs, 0)]

=============================================================================
